---- MODULE Spec2Model ----
(***************************************************************************)
(* valuesmart-backend: two request-triggered functions.                    *)
(*   buyerActions/lambda_function.py : the catalog router (five routes)    *)
(*   playAd/lambda_function.py       : the current ad-slot lookup          *)
(* A process hosts one of the two functions (variable fn) and serves one   *)
(* invocation at a time.  An invocation walks through lambda_handler:      *)
(* dispatch / session acquisition, the handler body, the except clause,    *)
(* the finally clause, the return.                                         *)
(***************************************************************************)
EXTENDS Integers, Sequences, FiniteSets, TLC

VARIABLES
    fn,             \* the function this process hosts: "catalog" or "ad"
    pc,             \* position inside lambda_handler
    request,        \* the event of the invocation in flight
    handler,        \* the handler the invocation runs ("None": it runs none)
    session,        \* the local variable `session`: "none", "open", "closed"
    pending,        \* objects added to the session and not yet committed
    exc,            \* the exception travelling up to lambda_handler
    response,       \* the envelope lambda_handler returns
    events,         \* effects of this invocation, in order
    signed,         \* keys handed to generate_presigned_url, in order
    enquiries,      \* table valuesmart.buyer_enquired_equipments
    before,         \* the enquiry table when the invocation started
    g_SessionLocal, \* playAd: global _SessionLocal (Null or a factory id)
    g_engine,       \* playAd: global _engine (Null or an engine id)
    created,        \* playAd: number of session factories ever built
    bookings,       \* table of SlotBookingRequest rows
    now             \* playAd: the reading of datetime.now() of this invocation

vars == <<fn, pc, request, handler, session, pending, exc, response, events,
          signed, enquiries, before, g_SessionLocal, g_engine, created,
          bookings, now>>

(***************************************************************************)
(* Bounds of the model.                                                    *)
(***************************************************************************)
MaxRows == 2        \* enquiry rows the table may hold
MaxSlash == 2       \* leading / trailing '/' put around a path
MaxBookings == 2    \* slot-booking rows in the booking table
MaxCreations == 2   \* session factories a process may ever build

(***************************************************************************)
(* Values.  Python None / SQL NULL, and tagged JSON values, so that values *)
(* of different types are never confused.                                  *)
(***************************************************************************)
Null == [type |-> "null"]
Absent == [type |-> "absent"]
IntV(n) == [type |-> "int", int |-> n]
StrV(s) == [type |-> "str", str |-> s]
ObjV(o) == [type |-> "object", obj |-> o]
ListV(l) == [type |-> "list", list |-> l]
TokV(s) == [type |-> "tok", tok |-> s]      \* a str, as a sequence of tokens
DictV(d) == [type |-> "dict", dict |-> d]   \* a dict, as a function on its keys
TextV(j) == [type |-> "text", json |-> j]   \* a str holding JSON text (or not)
InvalidJson == [type |-> "invalid"]         \* text json.loads cannot parse

\* Python truthiness of an optional string: None and "" are falsy.
Falsy(v) == v = Null \/ v = Absent \/ v = StrV("")

\* dict.get(key, default) on an event whose absent keys hold Absent
Get(d, key, default) == IF d[key] = Absent THEN default ELSE d[key]

BUCKET_NAME == "valuesmart"
AD_BUCKET_NAME == "valuesmart-assets"
DefaultExpiry == 300
CacheExpiry == 60
AdExpiry == 300

\* what generate_presigned_url returns
PresignedUrl(bucket, key, expires) ==
    [type |-> "url", bucket |-> bucket, key |-> key, expires |-> expires]

send_response(status_code, body) ==
    [statusCode |-> status_code,
     headers |-> [cors |-> "*", contentType |-> "application/json"],
     body |-> body]

send_return_status(status_code, data) ==
    [statusCode |-> status_code,
     headers |-> [cors |-> "*", contentType |-> "application/json"],
     body |-> data]

NoResponse == [statusCode |-> 0, headers |-> Null, body |-> Null]

(***************************************************************************)
(* Strings of the router.  A string is a sequence of tokens; the tokens    *)
(* form a prefix code, so two token sequences are equal exactly when the   *)
(* strings they spell are.                                                 *)
(***************************************************************************)
Lower(t) ==
    CASE t = "GET" -> "get"
      [] t = "Get" -> "get"
      [] t = "POST" -> "post"
      [] t = "Post" -> "post"
      [] t = "PUT" -> "put"
      [] t = "Buyer" -> "buyer"
      [] OTHER -> t

\* str.lower()
LowerStr(s) == [i \in DOMAIN s |-> Lower(s[i])]

RECURSIVE LStrip(_)
LStrip(s) ==
    IF s # <<>> /\ Head(s) = "/" THEN LStrip(Tail(s)) ELSE s

RECURSIVE RStrip(_)
RStrip(s) ==
    IF s # <<>> /\ s[Len(s)] = "/" THEN RStrip(SubSeq(s, 1, Len(s) - 1)) ELSE s

\* str.strip("/")
Strip(s) == RStrip(LStrip(s))

\* str.replace("/", "_")
Replace(s) == [i \in DOMAIN s |-> IF s[i] = "/" THEN "_" ELSE s[i]]

\* f"{method}_{path}"
ActionKey(event) ==
    LET method == LowerStr(Get(event, "httpMethod", TokV(<<>>)).tok)
        path == Replace(Strip(Get(event, "path", TokV(<<>>)).tok))
    IN  method \o <<"_">> \o path

KeyDivMktseg == <<"get", "_", "get", "_", "div", "_", "mktseg">>
KeyUnitop == KeyDivMktseg \o <<"_", "unitop">>
KeyEquip == KeyUnitop \o <<"_", "equip">>
KeyCache == KeyDivMktseg \o <<"_", "cache">>
KeyEnquiry == <<"post", "_", "buyer", "_", "enquiry">>

\* the dispatch table; Null is what dict.get returns for a key not in it
actions(key) ==
    CASE key = KeyDivMktseg -> "get_div_mktseg"
      [] key = KeyUnitop -> "get_div_mktseg_unitop"
      [] key = KeyEquip -> "get_div_mktseg_unitop_equip"
      [] key = KeyCache -> "get_div_mktseg_cache"
      [] key = KeyEnquiry -> "post_buyer_enquiry"
      [] OTHER -> "None"

(***************************************************************************)
(* The read-only catalog tables (section 2 of buyerActions): sample rows   *)
(* with a duplicated hierarchy path and with present, empty and NULL       *)
(* object-storage keys.                                                    *)
(***************************************************************************)
EquipmentCapabilitiesFct ==
    { [id |-> 1, unit_operation_id |-> 1, unit_operation |-> "mixing",
       market_segment_id |-> 1, market_segment_name |-> "pharma",
       division_id |-> 1, division_name |-> "process"],
      [id |-> 2, unit_operation_id |-> 2, unit_operation |-> "drying",
       market_segment_id |-> 1, market_segment_name |-> "pharma",
       division_id |-> 1, division_name |-> "process"],
      [id |-> 3, unit_operation_id |-> 1, unit_operation |-> "mixing",
       market_segment_id |-> 2, market_segment_name |-> "food",
       division_id |-> 1, division_name |-> "process"],
      [id |-> 4, unit_operation_id |-> 1, unit_operation |-> "mixing",
       market_segment_id |-> 1, market_segment_name |-> "pharma",
       division_id |-> 1, division_name |-> "process"],
      [id |-> 5, unit_operation_id |-> 1, unit_operation |-> "mixing",
       market_segment_id |-> 3, market_segment_name |-> "chem",
       division_id |-> 2, division_name |-> "packing"] }

MarketSegment ==
    { [id |-> 1, image_url |-> StrV("seg1.png")],
      [id |-> 2, image_url |-> StrV("")],
      [id |-> 3, image_url |-> Null] }

EquipmentDetails ==
    { [id |-> 1, machine_name |-> "mixerA", machine_image_url |-> StrV("m1.png")],
      [id |-> 2, machine_name |-> "dryer", machine_image_url |-> Null],
      [id |-> 3, machine_name |-> "blender", machine_image_url |-> StrV("m3.png")],
      [id |-> 4, machine_name |-> "mixerB", machine_image_url |-> StrV("")] }

\* an arbitrary but fixed enumeration of a result set (no ORDER BY)
RECURSIVE SetToSeq(_)
SetToSeq(S) ==
    IF S = {} THEN <<>>
    ELSE LET x == CHOOSE y \in S : TRUE IN <<x>> \o SetToSeq(S \ {x})

RECURSIVE Flatten(_)
Flatten(ss) == IF ss = <<>> THEN <<>> ELSE Head(ss) \o Flatten(Tail(ss))

(***************************************************************************)
(* Section 3: the pydantic schemas.  Query-string values are strings and   *)
(* are coerced to int; body values are JSON values.                        *)
(***************************************************************************)
IsNumeric(s) == s \in {"1", "2", "3"}

ParseInt(s) == CASE s = "1" -> 1 [] s = "2" -> 2 [] s = "3" -> 3

\* a field of type int: lax-mode coercion accepts an int or a numeric str
IntOk(v) == v.type = "int" \/ (v.type = "str" /\ IsNumeric(v.str))
IntOf(v) == IF v.type = "int" THEN v.int ELSE ParseInt(v.str)

\* the errors() of a ValidationError over required int fields
RequiredIntErrors(d, fields) ==
    {[loc |-> f, type |-> "missing"] : f \in fields \ DOMAIN d}
    \cup {[loc |-> f, type |-> "int_parsing"] :
            f \in {g \in fields \cap DOMAIN d : ~IntOk(d[g])}}

GetUnitOpFields == {"divisionId", "marketSegmentId"}
GetEquipFields == GetUnitOpFields \cup {"unitOperationId"}
PostRequiredFields ==
    {"buyer_id", "market_segment_id", "unit_operation_id", "equipment_id"}

\* event.get("queryStringParameters") or {}, with each value a str
QueryParams(event) ==
    LET q == event["queryStringParameters"]
    IN  IF q.type = "dict" THEN [k \in DOMAIN q.dict |-> StrV(q.dict[k])] ELSE <<>>

GetUnitOpSchema(d) == RequiredIntErrors(d, GetUnitOpFields)
GetEquipSchema(d) == RequiredIntErrors(d, GetEquipFields)

\* Optional[int] = None and Optional[Dict[str, Any]] = None
OptionalErrors(d) ==
    (IF "capacity_id" \in DOMAIN d /\ d["capacity_id"] # Null
        /\ ~IntOk(d["capacity_id"])
     THEN {[loc |-> "capacity_id", type |-> "int_parsing"]} ELSE {})
    \cup
    (IF "e_registered_details" \in DOMAIN d /\ d["e_registered_details"] # Null
        /\ d["e_registered_details"].type # "object"
     THEN {[loc |-> "e_registered_details", type |-> "dict_type"]} ELSE {})

PostEnquirySchema(d) == RequiredIntErrors(d, PostRequiredFields) \cup OptionalErrors(d)

\* a schema that lost its capacity_id field
model_dumpNoCapacity(d) ==
    [buyer_id |-> IntOf(d["buyer_id"]),
     market_segment_id |-> IntOf(d["market_segment_id"]),
     unit_operation_id |-> IntOf(d["unit_operation_id"]),
     equipment_id |-> IntOf(d["equipment_id"]),
     capacity_id |-> Null,
     e_registered_details |->
        IF "e_registered_details" \in DOMAIN d THEN d["e_registered_details"]
        ELSE Null]

\* data.model_dump() of a validated PostEnquirySchema
model_dump(d) ==
    [buyer_id |-> IntOf(d["buyer_id"]),
     market_segment_id |-> IntOf(d["market_segment_id"]),
     unit_operation_id |-> IntOf(d["unit_operation_id"]),
     equipment_id |-> IntOf(d["equipment_id"]),
     capacity_id |->
        IF "capacity_id" \in DOMAIN d /\ d["capacity_id"] # Null
        THEN IntV(IntOf(d["capacity_id"])) ELSE Null,
     e_registered_details |->
        IF "e_registered_details" \in DOMAIN d THEN d["e_registered_details"]
        ELSE Null]

\* the row the table gets for a BuyerEnquiredEquipment(**dump): the id is the
\* next auto-increment value, archive takes its server default
BuyerEnquiredEquipment(dump, table) ==
    [id |-> Len(table) + 1,
     buyer_id |-> dump.buyer_id,
     market_segment_id |-> dump.market_segment_id,
     unit_operation_id |-> dump.unit_operation_id,
     equipment_id |-> dump.equipment_id,
     capacity_id |-> dump.capacity_id,
     e_registered_details |-> dump.e_registered_details,
     archive |-> "N"]

\* get_s3_url: the URL it returns and the signing calls it makes
get_s3_url(object_key, expires) ==
    IF Falsy(object_key)
    THEN [url |-> Null, calls |-> <<>>]
    ELSE [url |-> PresignedUrl(BUCKET_NAME, object_key.str, expires),
          calls |-> <<object_key.str>>]

(***************************************************************************)
(* The events a process may receive.                                       *)
(***************************************************************************)
Event(method, path, q, body) ==
    [httpMethod |-> method, path |-> path,
     queryStringParameters |-> q, body |-> body]

Slashes(n) == [i \in 1..n |-> "/"]

\* the words joined by the separators: w1 s1 w2 s2 ... wn
RECURSIVE Join(_, _)
Join(words, seps) ==
    IF Len(words) <= 1 THEN words
    ELSE <<Head(words), Head(seps)>> \o Join(Tail(words), Tail(seps))

PathsOf(words) ==
    { Slashes(a) \o Join(words, seps) \o Slashes(b) :
        a \in 0..MaxSlash, b \in 0..MaxSlash,
        seps \in [1..(IF Len(words) = 0 THEN 0 ELSE Len(words) - 1) -> {"/", "_"}] }

RouteWords ==
    { <<"get", "div", "mktseg">>,
      <<"get", "div", "mktseg", "unitop">>,
      <<"get", "div", "mktseg", "unitop", "equip">>,
      <<"get", "div", "mktseg", "cache">>,
      <<"buyer", "enquiry">> }

OtherWords ==
    { <<>>, <<"buyer">>, <<"enquiry">>, <<"get", "div">>, <<"Buyer", "enquiry">>,
      <<"get", "div", "mktseg", "equip">>, <<"get", "get", "div", "mktseg">> }

RouterPaths ==
    {Absent} \cup {TokV(p) : p \in UNION {PathsOf(w) : w \in RouteWords \cup OtherWords}}

RouterMethods ==
    {Absent} \cup
    {TokV(m) : m \in { <<>>, <<"GET">>, <<"get">>, <<"Get">>, <<"POST">>,
                       <<"post">>, <<"PUT">>, <<"post", "_", "buyer">>,
                       <<"get", "_", "get">> }}

ValidQuery ==
    DictV([k \in GetEquipFields |-> "1"])

ValidBody ==
    TextV(DictV([k \in PostRequiredFields |->
        CASE k = "buyer_id" -> IntV(11)
          [] k = "market_segment_id" -> IntV(22)
          [] k = "unit_operation_id" -> IntV(33)
          [] k = "equipment_id" -> IntV(44)]))

\* the requests the routing properties range over: every method and path shape,
\* with a few query / body combinations
RouterRequests ==
    { Event(m, p, qb[1], qb[2]) :
        m \in RouterMethods, p \in RouterPaths,
        qb \in { <<Absent, Absent>>, <<Null, Null>>, <<ValidQuery, ValidBody>>,
                 <<Null, TextV(InvalidJson)>> } }

QVals == {"1", "2", "x"}

Queries ==
    {Absent, Null}
    \cup {DictV(f) : f \in UNION {[D -> QVals] : D \in SUBSET GetEquipFields}}

\* JSON objects for the enquiry body; a field holding Absent is left out
BodyRecords ==
    [buyer_id : {Absent, IntV(11), StrV("x")},
     market_segment_id : {Absent, IntV(22), StrV("x")},
     unit_operation_id : {Absent, IntV(33), Null},
     equipment_id : {Absent, StrV("3"), StrV("x")},
     capacity_id : {Absent, Null, IntV(5), StrV("x")},
     e_registered_details : {Absent, Null, ObjV("d1"), StrV("x")}]

DropAbsent(r) == [k \in {j \in DOMAIN r : r[j] # Absent} |-> r[k]]

PostBodies ==
    {Absent, Null, TextV(InvalidJson), TextV(Null), TextV(IntV(7)),
     TextV(ListV(<<>>)), TextV(StrV("x"))}
    \cup {TextV(DictV(DropAbsent(r))) : r \in BodyRecords}

Requests ==
    {Event(TokV(<<"POST">>), TokV(<<"/", "buyer", "_", "enquiry">>), Absent, b) :
        b \in PostBodies}
    \cup {Event(TokV(<<"GET">>), TokV(<<"/", "get", "_", "div", "_", "mktseg", "_", "unitop">>), q, Absent) :
        q \in Queries}
    \cup {Event(TokV(<<"GET">>), TokV(<<"get", "/", "div", "/", "mktseg", "/", "unitop", "/", "equip", "/">>), q, Absent) :
        q \in Queries}
    \cup {Event(TokV(<<"get">>), TokV(<<"/", "get", "_", "div", "_", "mktseg">>), q, Absent) :
        q \in {Absent, ValidQuery}}
    \cup {Event(TokV(<<"Get">>), TokV(<<"/", "get", "_", "div", "_", "mktseg", "_", "cache">>), Absent, Absent)}
    \cup {Event(m, TokV(<<"/", "buyer">>), Absent, b) :
        m \in {TokV(<<"POST">>), Absent}, b \in {Absent, ValidBody}}

(***************************************************************************)
(* Initial state: a fresh process of one of the two functions.             *)
(***************************************************************************)
InitCommon ==
    /\ pc = "idle"
    /\ request = Null
    /\ handler = "None"
    /\ session = "none"
    /\ pending = <<>>
    /\ exc = "none"
    /\ response = NoResponse
    /\ events = <<>>
    /\ signed = <<>>
    /\ enquiries = <<>>
    /\ before = <<>>
    /\ g_SessionLocal = Null
    /\ g_engine = Null
    /\ created = 0
    /\ now = Null

InitCatalog ==
    /\ fn = "catalog"
    /\ bookings = {}
    /\ InitCommon

(***************************************************************************)
(* How a handler body ends: with a response, or with an exception that     *)
(* travels up to lambda_handler.                                           *)
(***************************************************************************)
Returns(resp) ==
    /\ response' = resp
    /\ exc' = "none"
    /\ pc' = "finally"

Raises(e) ==
    /\ exc' = e
    /\ response' = response
    /\ pc' = "except"

\* the process state a handler never writes
HandlerFrame ==
    UNCHANGED <<fn, request, handler, session, before, g_SessionLocal, g_engine,
                created, bookings, now>>

(***************************************************************************)
(* buyerActions: lambda_handler, lines 190-207: routing, then the session. *)
(***************************************************************************)
MayInsert(event) ==
    /\ actions(ActionKey(event)) = "post_buyer_enquiry"
    /\ event["body"].type = "text"
    /\ event["body"].json.type = "dict"
    /\ PostEnquirySchema(event["body"].json.dict) = {}

\* a router that acquires the session before it looks the route up
RouteSessionFirst(event) ==
    LET h == actions(ActionKey(event))
    IN  /\ request' = event
        /\ before' = enquiries
        /\ handler' = h
        /\ signed' = <<>>
        /\ pending' = <<>>
        /\ exc' = "none"
        /\ session' = "open"
        /\ events' = <<"open">>
        /\ IF h = "None"
           THEN /\ response' = send_response(404, [error |-> StrV("Route not found")])
                /\ pc' = "done"
           ELSE /\ response' = NoResponse
                /\ pc' = "handler"
        /\ UNCHANGED <<fn, enquiries, g_SessionLocal, g_engine, created, bookings, now>>

Route(event) ==
    LET h == actions(ActionKey(event))
    IN  /\ request' = event
        /\ before' = enquiries
        /\ handler' = h
        /\ signed' = <<>>
        /\ pending' = <<>>
        /\ exc' = "none"
        /\ IF h = "None"
           THEN /\ response' = send_response(404, [error |-> StrV("Route not found")])
                /\ session' = "none"
                /\ events' = <<>>
                /\ pc' = "done"
           ELSE /\ response' = NoResponse
                /\ session' = "open"
                /\ events' = <<"open">>
                /\ pc' = "handler"
        /\ UNCHANGED <<fn, enquiries, g_SessionLocal, g_engine, created, bookings, now>>

Invoke(events_in) ==
    /\ fn = "catalog"
    /\ pc = "idle"
    /\ \E event \in events_in :
        /\ MayInsert(event) => Len(enquiries) < MaxRows
        /\ Route(event)

Dispatch == Invoke(Requests)

DispatchRouter == Invoke(RouterRequests)

(***************************************************************************)
(* buyerActions: the handlers.                                             *)
(***************************************************************************)
\* the signing calls of a list comprehension over the records, the n-th of
\* which raises (n = 0: none raises)
SignAll(calls, failAt, resp) ==
    IF failAt = 0
    THEN /\ signed' = calls
         /\ Returns(resp)
    ELSE /\ signed' = SubSeq(calls, 1, failAt)
         /\ Raises("ClientError")

WithUrl(r, field, key, expires) ==
    [k \in DOMAIN r \cup {field} |->
        IF k = field THEN get_s3_url(r[key], expires).url ELSE r[k]]

DivMktsegRecords ==
    { [division_id |-> f.division_id, division_name |-> f.division_name,
       market_segment_id |-> f.market_segment_id,
       market_segment_name |-> f.market_segment_name,
       image_url |-> m.image_url] :
        <<f, m>> \in {x \in EquipmentCapabilitiesFct \X MarketSegment :
                        x[1].market_segment_id = x[2].id} }

DivMktsegResults ==
    {WithUrl(r, "imageUrl", "image_url", DefaultExpiry) : r \in DivMktsegRecords}

get_div_mktseg ==
    /\ fn = "catalog" /\ pc = "handler" /\ handler = "get_div_mktseg"
    /\ \/ /\ events' = Append(events, "query_error")
          /\ signed' = signed
          /\ Raises("SQLAlchemyError")
       \/ LET order == SetToSeq(DivMktsegRecords)
              calls == Flatten([i \in DOMAIN order |->
                          get_s3_url(order[i].image_url, DefaultExpiry).calls])
          IN  /\ events' = Append(events, "query")
              /\ \E failAt \in 0..Len(calls) :
                    SignAll(calls, failAt,
                            send_response(200, [response |-> DivMktsegResults]))
    /\ UNCHANGED <<enquiries, pending>>
    /\ HandlerFrame

UnitopRecords(divisionId, marketSegmentId) ==
    { [division_id |-> f.division_id, division_name |-> f.division_name,
       unit_operation_id |-> f.unit_operation_id,
       unit_operation |-> f.unit_operation] :
        f \in {x \in EquipmentCapabilitiesFct :
                 /\ x.division_id = divisionId
                 /\ x.market_segment_id = marketSegmentId} }

get_div_mktseg_unitop ==
    /\ fn = "catalog" /\ pc = "handler" /\ handler = "get_div_mktseg_unitop"
    /\ LET d == QueryParams(request)
           errors == GetUnitOpSchema(d)
       IN  IF errors # {}
           THEN /\ events' = events
                /\ Returns(send_response(400, [error |-> ListV(errors)]))
           ELSE \/ /\ events' = Append(events, "query_error")
                   /\ Raises("SQLAlchemyError")
                \/ /\ events' = Append(events, "query")
                   /\ Returns(send_response(200,
                        [response |-> UnitopRecords(IntOf(d["divisionId"]),
                                                    IntOf(d["marketSegmentId"]))]))
    /\ UNCHANGED <<enquiries, pending, signed>>
    /\ HandlerFrame

EquipRecords(divisionId, marketSegmentId, unitOperationId) ==
    { [division_id |-> x[1].division_id, machine_name |-> x[2].machine_name,
       id |-> x[2].id, machine_image_url |-> x[2].machine_image_url] :
        x \in {y \in EquipmentCapabilitiesFct \X EquipmentDetails :
                 /\ y[2].id = y[1].id
                 /\ y[1].division_id = divisionId
                 /\ y[1].market_segment_id = marketSegmentId
                 /\ y[1].unit_operation_id = unitOperationId} }

EquipResults(records) ==
    {WithUrl(r, "machineImageUrl", "machine_image_url", DefaultExpiry) : r \in records}

get_div_mktseg_unitop_equip ==
    /\ fn = "catalog" /\ pc = "handler" /\ handler = "get_div_mktseg_unitop_equip"
    /\ LET d == QueryParams(request)
           errors == GetEquipSchema(d)
       IN  IF errors # {}
           THEN /\ events' = events
                /\ signed' = signed
                /\ Returns(send_response(400, [error |-> ListV(errors)]))
           ELSE \/ /\ events' = Append(events, "query_error")
                   /\ signed' = signed
                   /\ Raises("SQLAlchemyError")
                \/ LET records == EquipRecords(IntOf(d["divisionId"]),
                                               IntOf(d["marketSegmentId"]),
                                               IntOf(d["unitOperationId"]))
                       order == SetToSeq(records)
                       calls == Flatten([i \in DOMAIN order |->
                            get_s3_url(order[i].machine_image_url, DefaultExpiry).calls])
                   IN  /\ events' = Append(events, "query")
                       /\ \E failAt \in 0..Len(calls) :
                            SignAll(calls, failAt,
                                send_response(200, [response |-> EquipResults(records)]))
    /\ UNCHANGED <<enquiries, pending>>
    /\ HandlerFrame

\* the object division_marketsegment.json, when it holds what is expected
DivisionCache ==
    << [division |-> "process",
        marketSegments |-> << [name |-> "pharma", imageUrl |-> StrV("seg1.png")],
                              [name |-> "food", imageUrl |-> StrV("")],
                              [name |-> "chem", imageUrl |-> Absent] >>],
       [division |-> "packing", marketSegments |-> <<>>] >>

SignedCache(data) ==
    [i \in DOMAIN data |->
        [data[i] EXCEPT !.marketSegments =
            [j \in DOMAIN @ |->
                IF Falsy(@[j].imageUrl) THEN @[j]
                ELSE [@[j] EXCEPT !.imageUrl = get_s3_url(@, CacheExpiry).url]]]]

CacheCalls(data) ==
    Flatten([i \in DOMAIN data |->
        Flatten([j \in DOMAIN data[i].marketSegments |->
            get_s3_url(Get(data[i].marketSegments[j], "imageUrl", Null),
                       CacheExpiry).calls])])

\* every exception inside the handler, a failing signing call included, is
\* answered with the same 404
get_div_mktseg_cache ==
    /\ fn = "catalog" /\ pc = "handler" /\ handler = "get_div_mktseg_cache"
    /\ events' = Append(events, "get_object")
    /\ \/ /\ signed' = signed
          /\ Returns(send_response(404, [error |-> StrV("Cache not found or invalid")]))
       \/ \E failAt \in 0..Len(CacheCalls(DivisionCache)) :
            IF failAt = 0
            THEN /\ signed' = CacheCalls(DivisionCache)
                 /\ Returns(send_response(200, [response |-> SignedCache(DivisionCache)]))
            ELSE /\ signed' = SubSeq(CacheCalls(DivisionCache), 1, failAt)
                 /\ Returns(send_response(404, [error |-> StrV("Cache not found or invalid")]))
    /\ UNCHANGED <<enquiries, pending>>
    /\ HandlerFrame

\* lines 181-184: add, commit, and the read of new_record.id, which reloads
\* the row the commit expired.  The commit or the reload may fail.
Persist(d) ==
    LET dump == model_dump(d)
        new_record == BuyerEnquiredEquipment(dump, enquiries)
    IN  \/ /\ events' = events \o <<"add", "commit_error">>
           /\ pending' = Append(pending, dump)
           /\ enquiries' = enquiries
           /\ Raises("SQLAlchemyError")
        \/ /\ events' = events \o <<"add", "commit", "refresh_error">>
           /\ pending' = pending
           /\ enquiries' = Append(enquiries, new_record)
           /\ Raises("SQLAlchemyError")
        \/ /\ events' = events \o <<"add", "commit", "refresh">>
           /\ pending' = pending
           /\ enquiries' = Append(enquiries, new_record)
           /\ Returns(send_response(201,
                [message |-> StrV("Enquiry submitted"), id |-> new_record.id]))

post_buyer_enquiry ==
    /\ fn = "catalog" /\ pc = "handler" /\ handler = "post_buyer_enquiry"
    /\ LET raw == Get(request, "body", TextV(DictV(<<>>)))
       IN  IF raw.type # "text"
           THEN \* json.loads(None): TypeError, which the handler does not catch
                /\ Raises("TypeError")
                /\ UNCHANGED <<events, pending, enquiries>>
           ELSE IF raw.json = InvalidJson
           THEN \* json.JSONDecodeError
                /\ Returns(send_response(400, [error |-> StrV("Invalid Input")]))
                /\ UNCHANGED <<events, pending, enquiries>>
           ELSE IF raw.json.type # "dict"
           THEN \* PostEnquirySchema(**body) on a non-mapping: TypeError
                /\ Raises("TypeError")
                /\ UNCHANGED <<events, pending, enquiries>>
           ELSE IF PostEnquirySchema(raw.json.dict) # {}
           THEN \* ValidationError
                /\ Returns(send_response(400, [error |-> StrV("Invalid Input")]))
                /\ UNCHANGED <<events, pending, enquiries>>
           ELSE Persist(raw.json.dict)
    /\ signed' = signed
    /\ HandlerFrame

(***************************************************************************)
(* buyerActions: lambda_handler, lines 208-215.                            *)
(***************************************************************************)
Except ==
    /\ fn = "catalog" /\ pc = "except"
    /\ events' = Append(events, "rollback")
    /\ pending' = <<>>
    /\ response' = send_response(500, [error |-> StrV("Internal Server Error")])
    /\ pc' = "finally"
    /\ UNCHANGED <<fn, request, handler, session, exc, signed, enquiries, before,
                   g_SessionLocal, g_engine, created, bookings, now>>

\* a lambda_handler that closes the session at the end of the try block
\* instead of in a finally clause
FinallyOnSuccessOnly ==
    /\ fn = "catalog" /\ pc = "finally"
    /\ IF exc = "none"
       THEN /\ session' = "closed"
            /\ events' = Append(events, "close")
       ELSE UNCHANGED <<session, events>>
    /\ pending' = <<>>
    /\ pc' = "done"
    /\ UNCHANGED <<fn, request, handler, exc, response, signed, enquiries, before,
                   g_SessionLocal, g_engine, created, bookings, now>>

Finally ==
    /\ fn = "catalog" /\ pc = "finally"
    /\ session' = "closed"
    /\ events' = Append(events, "close")
    /\ pending' = <<>>
    /\ pc' = "done"
    /\ UNCHANGED <<fn, request, handler, exc, response, signed, enquiries, before,
                   g_SessionLocal, g_engine, created, bookings, now>>

\* the response leaves the process, which waits for the next event
Return ==
    /\ pc = "done"
    /\ pc' = "idle"
    /\ request' = Null
    /\ handler' = "None"
    /\ session' = "none"
    /\ pending' = <<>>
    /\ exc' = "none"
    /\ response' = NoResponse
    /\ events' = <<>>
    /\ signed' = <<>>
    /\ before' = enquiries
    /\ now' = Null
    /\ UNCHANGED <<fn, enquiries, g_SessionLocal, g_engine, created, bookings>>

(***************************************************************************)
(* playAd: the tables of the slot lookup and the clock.                    *)
(***************************************************************************)
Digit(d) == <<"0", "1", "2", "3", "4", "5", "6", "7", "8", "9">>[d + 1]

\* now.strftime("%H:00"): the hour on two digits, the minutes dropped
HourLabel(t) == <<Digit(t.hour \div 10), Digit(t.hour % 10), ":", "0", "0">>

\* now.date()
DateOf(t) == t.date

\* now.isoformat(), to the minute
IsoFormat(t) ==
    <<t.date, "T", Digit(t.hour \div 10), Digit(t.hour % 10), ":",
      Digit(t.minute \div 10), Digit(t.minute % 10)>>

Nows == [date : {"2024-05-01", "2024-05-02"}, hour : {9, 14}, minute : {0, 59}]

\* the time-slot grid; row 4 spells its hour without the leading zero
CalendarTimeRates ==
    { [id |-> 1, booking_date |-> "2024-05-01", hour |-> <<"0", "9", ":", "0", "0">>],
      [id |-> 2, booking_date |-> "2024-05-01", hour |-> <<"1", "4", ":", "0", "0">>],
      [id |-> 3, booking_date |-> "2024-05-02", hour |-> <<"1", "4", ":", "0", "0">>],
      [id |-> 4, booking_date |-> "2024-05-02", hour |-> <<"9", ":", "0", "0">>] }

\* the rows the booking workflow may have left in the booking table
BookingUniverse ==
    { [id |-> 1, url |-> StrV("adA.mp4"), booking_date_id |-> 1, approval_status |-> "approved"],
      [id |-> 2, url |-> StrV(""), booking_date_id |-> 1, approval_status |-> "approved"],
      [id |-> 3, url |-> Null, booking_date_id |-> 2, approval_status |-> "approved"],
      [id |-> 4, url |-> StrV("adB.mp4"), booking_date_id |-> 2, approval_status |-> "pending"],
      [id |-> 5, url |-> StrV("adC.mp4"), booking_date_id |-> 3, approval_status |-> "Approved"],
      [id |-> 6, url |-> StrV("adD.mp4"), booking_date_id |-> 3, approval_status |-> "approved"],
      [id |-> 7, url |-> StrV("adE.mp4"), booking_date_id |-> 4, approval_status |-> "approved"],
      [id |-> 8, url |-> StrV("adF.mp4"), booking_date_id |-> 1, approval_status |-> "approved"] }

BookingTables == {B \in SUBSET BookingUniverse : Cardinality(B) <= MaxBookings}

InitAd ==
    /\ fn = "ad"
    /\ bookings \in BookingTables
    /\ InitCommon

Init == InitCatalog \/ InitAd

AdEvent == Event(TokV(<<"GET">>), TokV(<<"/", "play", "_", "ad">>), Absent, Absent)

(***************************************************************************)
(* playAd: get_session, lines 33-49, called at line 67.                    *)
(***************************************************************************)
\* a get_session without the `is None` test: a factory per invocation
get_sessionEveryTime ==
    /\ created < MaxCreations
    /\ g_engine' = [type |-> "engine"]
    /\ g_SessionLocal' = [type |-> "factory", id |-> created + 1]
    /\ created' = created + 1
    /\ events' = <<"create_engine", "sessionmaker", "open">>
    /\ exc' = "none"

\* the globals after get_session, and whether it raised: the factory is
\* built only when _SessionLocal is None
get_session ==
    IF g_SessionLocal = Null
    THEN /\ created < MaxCreations
         /\ \/ \* create_engine raises
               /\ UNCHANGED <<g_engine, g_SessionLocal, created>>
               /\ events' = <<"create_engine_error">>
               /\ exc' = "Exception"
            \/ \* sessionmaker raises, _engine is already assigned
               /\ g_engine' = [type |-> "engine"]
               /\ UNCHANGED <<g_SessionLocal, created>>
               /\ events' = <<"create_engine", "sessionmaker_error">>
               /\ exc' = "Exception"
            \/ /\ g_engine' = [type |-> "engine"]
               /\ g_SessionLocal' = [type |-> "factory", id |-> created + 1]
               /\ created' = created + 1
               /\ events' = <<"create_engine", "sessionmaker", "open">>
               /\ exc' = "none"
    ELSE /\ UNCHANGED <<g_engine, g_SessionLocal, created>>
         /\ events' = <<"open">>
         /\ exc' = "none"

AdInvoke ==
    /\ fn = "ad" /\ pc = "idle"
    /\ request' = AdEvent
    /\ get_session
    /\ handler' = IF exc' = "none" THEN "get_play_ad" ELSE "None"
    /\ session' = IF exc' = "none" THEN "open" ELSE "none"
    /\ pc' = IF exc' = "none" THEN "handler" ELSE "except"
    /\ signed' = <<>>
    /\ pending' = <<>>
    /\ response' = NoResponse
    /\ before' = enquiries
    /\ UNCHANGED <<fn, enquiries, bookings, now>>

(***************************************************************************)
(* playAd: get_play_ad, lines 79-122.                                      *)
(***************************************************************************)
\* a query without the approval_status filter
SlotMatchesAnyStatus(t) ==
    { b \in bookings :
        \E c \in CalendarTimeRates :
            /\ b.booking_date_id = c.id
            /\ c.booking_date = DateOf(t)
            /\ c.hour = HourLabel(t) }

\* the rows the query selects before LIMIT 1
SlotMatches(t) ==
    { b \in bookings :
        \E c \in CalendarTimeRates :
            /\ b.booking_date_id = c.id
            /\ c.booking_date = DateOf(t)
            /\ c.hour = HourLabel(t)
            /\ b.approval_status = "approved" }

\* query.scalar(): the url of one selected row, None when there is none
Scalars(t) ==
    IF SlotMatches(t) = {} THEN {Null} ELSE {b.url : b \in SlotMatches(t)}

SignAd(t, s3_key) ==
    /\ signed' = <<s3_key.str>>
    /\ \/ \* botocore ClientError, answered by the handler
          Returns(send_return_status(500, [error |-> StrV("Failed to generate access URL")]))
       \/ \* any other exception is re-raised
          Raises("Exception")
       \/ Returns(send_return_status(200,
            [url |-> PresignedUrl(AD_BUCKET_NAME, s3_key.str, AdExpiry),
             timestamp |-> IsoFormat(t),
             slot |-> HourLabel(t)]))

get_play_ad ==
    /\ fn = "ad" /\ pc = "handler"
    /\ \E t \in Nows :
        /\ now' = t
        /\ \/ /\ events' = Append(events, "query_error")
              /\ signed' = signed
              /\ Raises("SQLAlchemyError")
           \/ /\ events' = Append(events, "query")
              /\ \E s3_key \in Scalars(t) :
                    IF Falsy(s3_key)
                    THEN /\ signed' = signed
                         /\ Returns(send_return_status(404,
                                [message |-> StrV("No approved content for this slot")]))
                    ELSE SignAd(t, s3_key)
    /\ UNCHANGED <<fn, request, handler, session, pending, enquiries, before,
                   g_SessionLocal, g_engine, created, bookings>>

(***************************************************************************)
(* playAd: lambda_handler, lines 69-77.                                    *)
(***************************************************************************)
AdExcept ==
    /\ fn = "ad" /\ pc = "except"
    /\ response' = IF exc = "SQLAlchemyError"
                   THEN send_return_status(503, [error |-> StrV("Service temporarily unavailable")])
                   ELSE send_return_status(500, [error |-> StrV("Internal server error")])
    /\ pc' = "finally"
    /\ UNCHANGED <<fn, request, handler, session, pending, exc, events, signed,
                   enquiries, before, g_SessionLocal, g_engine, created, bookings, now>>

AdFinally ==
    /\ fn = "ad" /\ pc = "finally"
    /\ IF session # "none"
       THEN /\ session' = "closed"
            /\ events' = Append(events, "close")
       ELSE UNCHANGED <<session, events>>
    /\ pc' = "done"
    /\ UNCHANGED <<fn, request, handler, pending, exc, response, signed, enquiries,
                   before, g_SessionLocal, g_engine, created, bookings, now>>

(***************************************************************************)
(* The specifications.                                                     *)
(***************************************************************************)
Next ==
    \/ Dispatch
    \/ get_div_mktseg
    \/ get_div_mktseg_unitop
    \/ get_div_mktseg_unitop_equip
    \/ get_div_mktseg_cache
    \/ post_buyer_enquiry
    \/ Except
    \/ Finally
    \/ AdInvoke
    \/ get_play_ad
    \/ AdExcept
    \/ AdFinally
    \/ Return

Spec == Init /\ [][Next]_vars

\* the catalog router alone, over every method and path shape
NextRouter ==
    \/ DispatchRouter
    \/ get_div_mktseg
    \/ get_div_mktseg_unitop
    \/ get_div_mktseg_unitop_equip
    \/ get_div_mktseg_cache
    \/ post_buyer_enquiry
    \/ Except
    \/ Finally
    \/ Return

SpecRouter == InitCatalog /\ [][NextRouter]_vars

(***************************************************************************)
(* Vocabulary of the properties.                                           *)
(***************************************************************************)
Count(seq, e) == Cardinality({i \in DOMAIN seq : seq[i] = e})

Occurs(seq, e) == \E i \in DOMAIN seq : seq[i] = e

\* a database call of this invocation failed
DbError ==
    \/ Occurs(events, "query_error")
    \/ Occurs(events, "commit_error")
    \/ Occurs(events, "refresh_error")

\* the invocation is over and its response is about to leave
Done == pc = "done"

TableKeys == {KeyDivMktseg, KeyUnitop, KeyEquip, KeyCache, KeyEnquiry}

\* the enquiry body is a JSON object that passes validation
WellFormedBody(event) ==
    LET raw == Get(event, "body", TextV(DictV(<<>>)))
    IN  /\ raw.type = "text"
        /\ raw.json.type = "dict"
        /\ PostEnquirySchema(raw.json.dict) = {}

(***************************************************************************)
(* C1.  In both functions an invocation that reaches a handler holds       *)
(* exactly one session, opened once and closed once, whatever way the      *)
(* invocation ends: while the handler runs the session is open, and when   *)
(* the invocation is over the session is closed, one acquisition and one   *)
(* release have happened and the release is the last effect.  No finished  *)
(* or idle state has an open session.                                      *)
(***************************************************************************)
C1_SessionReleased ==
    /\ pc = "handler" => handler # "None" /\ session = "open"
    /\ session = "open" => Count(events, "open") = 1 /\ Count(events, "close") = 0
    /\ (Done /\ handler # "None") =>
          /\ session = "closed"
          /\ Count(events, "open") = 1
          /\ Count(events, "close") = 1
          /\ events[Len(events)] = "close"
    /\ (Done /\ handler = "None") =>
          /\ session = "none"
          /\ ~Occurs(events, "open")
    /\ pc \in {"done", "idle"} => session # "open"

\* an invocation that ended with a database error has closed its session
C1_Witness ==
    /\ Done
    /\ handler # "None"
    /\ exc = "SQLAlchemyError"
    /\ session = "closed"
    /\ events[Len(events)] = "close"

(***************************************************************************)
(* C2.  A (method, path) whose routing key is not one of the five table    *)
(* entries is answered 404 {"error": "Route not found"}, whatever its body *)
(* and query are; no session is opened, no handler runs, nothing is        *)
(* written.                                                                *)
(***************************************************************************)
C2_RouteNotFound ==
    (fn = "catalog" /\ request # Null /\ ActionKey(request) \notin TableKeys) =>
        /\ Done
        /\ response = send_response(404, [error |-> StrV("Route not found")])
        /\ handler = "None"
        /\ session = "none"
        /\ events = <<>>
        /\ signed = <<>>
        /\ enquiries = before

\* PUT //buyer/enquiry/ with a valid query and a valid body is unroutable
C2_Witness ==
    /\ Done
    /\ request = Event(TokV(<<"PUT">>),
                       TokV(<<"/", "/", "buyer", "/", "enquiry", "/">>),
                       ValidQuery, ValidBody)
    /\ response.statusCode = 404
    /\ session = "none"

(***************************************************************************)
(* C3.  A create-enquiry request whose body fails parsing or validation    *)
(* (not JSON, absent, null, not an object, a required field missing, a     *)
(* field wrongly typed) is answered 400 and leaves the enquiry table as it *)
(* was, with no insert attempted.                                          *)
(***************************************************************************)
C3_BadBodyIs400 ==
    (Done /\ handler = "post_buyer_enquiry" /\ ~WellFormedBody(request)) =>
        /\ response.statusCode = 400
        /\ enquiries = before
        /\ ~Occurs(events, "add")

(***************************************************************************)
(* C4.  For a well-formed enquiry body, with the database answering, the   *)
(* handler appends exactly one row: the four identifiers of the input,     *)
(* capacity_id and e_registered_details as given (null when omitted or     *)
(* null), archive 'N'.  The rows that were there are unchanged, and the    *)
(* response is 201 "Enquiry submitted" with the id of the new row.         *)
(***************************************************************************)
C4_OneRowCreated ==
    (Done /\ handler = "post_buyer_enquiry" /\ WellFormedBody(request) /\ ~DbError) =>
        LET d == request["body"].json.dict
            row == enquiries[Len(enquiries)]
        IN  /\ Len(enquiries) = Len(before) + 1
            /\ SubSeq(enquiries, 1, Len(before)) = before
            /\ \A i \in 1..Len(before) : before[i].id # row.id
            /\ row.buyer_id = IntOf(d["buyer_id"])
            /\ row.market_segment_id = IntOf(d["market_segment_id"])
            /\ row.unit_operation_id = IntOf(d["unit_operation_id"])
            /\ row.equipment_id = IntOf(d["equipment_id"])
            /\ row.capacity_id =
                  (IF "capacity_id" \in DOMAIN d /\ d["capacity_id"] # Null
                   THEN IntV(IntOf(d["capacity_id"])) ELSE Null)
            /\ row.e_registered_details =
                  (IF "e_registered_details" \in DOMAIN d
                   THEN d["e_registered_details"] ELSE Null)
            /\ row.archive = "N"
            /\ response = send_response(201,
                  [message |-> StrV("Enquiry submitted"), id |-> row.id])

\* a second enquiry, with a capacity and an explicit null for the details
C4_Witness ==
    /\ Done
    /\ handler = "post_buyer_enquiry"
    /\ response.statusCode = 201
    /\ Len(before) = 1
    /\ Len(enquiries) = 2
    /\ "capacity_id" \in DOMAIN request["body"].json.dict
    /\ request["body"].json.dict["capacity_id"] = IntV(5)
    /\ "e_registered_details" \in DOMAIN request["body"].json.dict
    /\ request["body"].json.dict["e_registered_details"] = Null
    /\ enquiries[2].capacity_id = IntV(5)
    /\ enquiries[2].e_registered_details = Null

(***************************************************************************)
(* C5.  When validation fails in a handler that validates its input (the   *)
(* unit-operation listing, the equipment listing, create enquiry), the     *)
(* response is 400, its body lists every failed field, and no query or     *)
(* insert runs.                                                            *)
(***************************************************************************)
ValidationErrors ==
    CASE handler = "get_div_mktseg_unitop" -> GetUnitOpSchema(QueryParams(request))
      [] handler = "get_div_mktseg_unitop_equip" -> GetEquipSchema(QueryParams(request))
      [] handler = "post_buyer_enquiry" ->
            LET raw == Get(request, "body", TextV(DictV(<<>>)))
            IN  IF raw.type = "text" /\ raw.json.type = "dict"
                THEN PostEnquirySchema(raw.json.dict) ELSE {}
      [] OTHER -> {}

C5_AllFailuresListed ==
    (Done /\ ValidationErrors # {}) =>
        /\ response.statusCode = 400
        /\ response.body = [error |-> ListV(ValidationErrors)]
        /\ events = <<"open", "close">>
        /\ enquiries = before

(***************************************************************************)
(* C6.  In both functions a failing database call is answered 503          *)
(* {"error": "Service temporarily unavailable"}; a 500 is never the answer *)
(* to a database error.                                                    *)
(***************************************************************************)
C6_DbErrorIs503 ==
    (Done /\ DbError) =>
        /\ response.statusCode = 503
        /\ response.body = [error |-> StrV("Service temporarily unavailable")]
        /\ response.statusCode # 500

(***************************************************************************)
(* C7.  In a process of the ad-slot function the connection factory is     *)
(* built at most once: an invocation that finds it uninitialized tries to  *)
(* build it, a failed attempt leaves it uninitialized, a successful one    *)
(* sets it, and from then on every invocation takes its session from the   *)
(* same factory without building anything.                                 *)
(***************************************************************************)
C7_Step ==
    /\ created' <= 1
    /\ g_SessionLocal # Null =>
          /\ g_SessionLocal' = g_SessionLocal
          /\ g_engine' = g_engine
          /\ created' = created
    /\ (fn = "ad" /\ pc = "idle" /\ pc' # "idle") =>
          IF g_SessionLocal # Null
          THEN /\ events' = <<"open">>
               /\ pc' = "handler"
          ELSE /\ events'[1] \in {"create_engine", "create_engine_error"}
               /\ IF pc' = "handler"
                  THEN /\ g_SessionLocal' # Null
                       /\ created' = created + 1
                  ELSE /\ g_SessionLocal' = Null
                       /\ created' = created
    /\ g_SessionLocal' # g_SessionLocal => (fn = "ad" /\ pc = "idle")

C7_FactoryOnce == [][C7_Step]_vars

\* a later invocation takes its session from the factory an earlier one built
C7_Witness ==
    /\ fn = "ad"
    /\ pc = "handler"
    /\ created = 1
    /\ g_SessionLocal = [type |-> "factory", id |-> 1]
    /\ events = <<"open">>

(***************************************************************************)
(* C8.  In the ad-slot function, when no booking row with status exactly   *)
(* "approved" is joined to a time-slot row of the current date and the     *)
(* current hour label HH:00, the answer is 404 "No approved content for    *)
(* this slot" and nothing is signed.  At most one key is signed per        *)
(* invocation, and it is the non-empty key of a matching row.              *)
(***************************************************************************)
\* the label HH:00 of the hours the model's clock shows
C8_Label(h) ==
    CASE h = 9 -> <<"0", "9", ":", "0", "0">>
      [] h = 14 -> <<"1", "4", ":", "0", "0">>

C8_Approved(t) ==
    { b \in bookings :
        /\ b.approval_status = "approved"
        /\ \E c \in CalendarTimeRates :
              /\ c.id = b.booking_date_id
              /\ c.booking_date = t.date
              /\ c.hour = C8_Label(t.hour) }

C8_NoSlotNoSigning ==
    (fn = "ad" /\ now # Null) =>
        /\ Len(signed) <= 1
        /\ C8_Approved(now) = {} => signed = <<>>
        /\ (Done /\ C8_Approved(now) = {} /\ ~DbError) =>
              response = send_return_status(404,
                  [message |-> StrV("No approved content for this slot")])
        /\ signed # <<>> =>
              /\ signed[1] # ""
              /\ \E b \in C8_Approved(now) : b.url = StrV(signed[1])
              /\ Occurs(events, "query")

\* at 14:59 on 2024-05-02 the only booking of the slot is "Approved"
C8_Witness ==
    /\ fn = "ad"
    /\ Done
    /\ now = [date |-> "2024-05-02", hour |-> 14, minute |-> 59]
    /\ \E b \in bookings : b.approval_status = "Approved" /\ b.booking_date_id = 3
    /\ response.statusCode = 404
    /\ signed = <<>>

(***************************************************************************)
(* C9.  Every row the division/segment listing and the equipment listing   *)
(* return has its image key replaced by a signed URL: the URL field is     *)
(* non-null exactly when the key is non-empty, a null or empty key is not  *)
(* signed, and the row does not carry the raw key.                         *)
(***************************************************************************)
C9_KeyColumn ==
    IF handler = "get_div_mktseg" THEN "image_url" ELSE "machine_image_url"

C9_UrlField ==
    IF handler = "get_div_mktseg" THEN "imageUrl" ELSE "machineImageUrl"

C9_Records ==
    IF handler = "get_div_mktseg" THEN DivMktsegRecords
    ELSE LET d == QueryParams(request)
         IN  EquipRecords(IntOf(d["divisionId"]), IntOf(d["marketSegmentId"]),
                          IntOf(d["unitOperationId"]))

C9_KeyReplaced ==
    (Done /\ handler \in {"get_div_mktseg", "get_div_mktseg_unitop_equip"}
          /\ response.statusCode = 200) =>
        /\ Cardinality(response.body.response) = Cardinality(C9_Records)
        /\ \A r \in C9_Records :
              \E row \in response.body.response :
                  /\ \A k \in DOMAIN r \ {C9_KeyColumn} : row[k] = r[k]
                  /\ row[C9_UrlField] # Null <=> ~Falsy(r[C9_KeyColumn])
        /\ \A i \in DOMAIN signed : signed[i] # ""
        /\ \A row \in response.body.response : C9_KeyColumn \notin DOMAIN row

(***************************************************************************)
(* C10.  On the create-enquiry path, when an exception leaves the handler, *)
(* the transaction is rolled back and then the session is closed, in that  *)
(* order; the enquiry table is what it was before the invocation; and no   *)
(* rollback follows a successful commit of the same invocation.            *)
(***************************************************************************)
C10_RollbackThenClose ==
    (Done /\ handler = "post_buyer_enquiry" /\ exc # "none") =>
        /\ Len(events) >= 2
        /\ events[Len(events) - 1] = "rollback"
        /\ events[Len(events)] = "close"
        /\ Count(events, "rollback") = 1
        /\ enquiries = before
        /\ ~Occurs(events, "commit")

====
